---- MODULE Spec2Model ----
(***************************************************************************)
(* A model of the 2v2 round runner of src/controllers/matchmaker_2v2.rs:   *)
(* the pair generator (create_match_pairs), the team qualifier             *)
(* (compile_team_bots), the match runner (run_match) with the output       *)
(* parser, and the round orchestrator (run_2v2_round) with its cleanup.    *)
(* Each component has a specification of its own over the shared           *)
(* variables; the variables of the other components stay at rest.          *)
(***************************************************************************)
EXTENDS Integers, Sequences, FiniteSets, TLC

VARIABLES
    \* create_match_pairs
    ppc,                \* position in create_match_pairs
    nteams,             \* teams.len()
    match_num,          \* match_num (games per round)
    players,            \* the ticket pool: a sequence of team indices
    pairs,              \* the pairs pushed so far
    first_team_index,   \* the first team drawn in the current iteration
    \* compile_team_bots
    qteams,             \* the teams handed to compile_team_bots
    tpc,                \* each team's worker: its position in the closure
    fetched,            \* per team and slot: the outcome of get_bot_by_id
    compiled,           \* per team and slot: the outcome of compile_bot
    error_written,      \* the bots whose error field was written in this round
    results,            \* the teams the closure returned Some for
    \* run_match
    mpc,                \* position in run_match
    m_team1, m_team2,   \* the two teams of the match
    match_game,         \* the NewGame2v2 being filled
    staging_exists,     \* ./resources/matches/<match id> exists
    child,              \* the evaluator process
    timed_out,          \* wait_timeout returned None
    output, errors,     \* the lines collected from stdout and stderr
    archive,            \* the text saved to <match id>.zip, if any
    error_file,         \* the text written to <match id>_error.txt, if any
    stored_game,        \* the game insert_game persisted, if any
    failed_step,        \* the I/O or store step of the match that failed
    m_result,           \* what run_match returned
    pipe_writers,       \* the processes holding the write ends of the child's
                        \* stdout and stderr pipes
    readers,            \* the two reader threads: none, running, joined
    \* run_2v2_round
    round,              \* the round the store holds for the competition
    games_per_round,    \* competition.games_per_round
    rpc,                \* each execution's position in run_2v2_round
    comp_round,         \* competition.round as each execution loaded it
    ncompiled,          \* compiled_teams.len() of each execution
    mstate,             \* each execution's matches: pending, staged, returned (Ok
                        \* from run_match, not yet pushed), Ok (pushed), Err
    games,              \* each execution's games vector: the matches pushed
    match_dirs,         \* the subdirectories of ./resources/matches: <<r, i>> of
                        \* a match in flight, <<0, 0>> those of returned matches
    ok_steps,           \* the orchestration steps an execution has passed
    failed_at,          \* the orchestration step an execution failed at
    r_result,           \* what each execution returned
    \* parse_bugged_game / parse_healthy_game on their own
    p_pc,               \* off, input, parsed, reparsed
    p_lines,            \* the stdout lines handed to the parser
    p_errs,             \* the stderr lines handed to the parser
    p_game,             \* the NewGame2v2 handed to the parser
    p_outcome,          \* none, game, or panic (the parsing thread unwinds)
    p_parsed,           \* the game as the parser left it
    p_again_outcome,    \* the outcome of a second parse of the same input
    p_again,            \* the game as the second parse left it
    \* compile_bot on its own
    c_pc,               \* off, input, returned
    c_failed_step,      \* the step before the listing that fails, or none
    c_entries,          \* the entries read_dir yields for the workdir, in order
    c_main,             \* what contains_main_method returns for each entry
    c_javac,            \* what execute_command returns for javac: Ok or Err
    c_result,           \* what compile_bot returned
    c_javac_invoked     \* execute_command("javac", ..) was called

pairVars == <<ppc, nteams, match_num, players, pairs, first_team_index>>
qualVars == <<qteams, tpc, fetched, compiled, error_written, results>>
matchVars == <<mpc, m_team1, m_team2, match_game, staging_exists, child, timed_out,
               output, errors, archive, error_file, stored_game, failed_step, m_result,
               pipe_writers, readers>>

roundVars == <<round, games_per_round, rpc, comp_round, ncompiled, mstate, games,
               match_dirs, ok_steps, failed_at, r_result>>

parseVars == <<p_pc, p_lines, p_errs, p_game, p_outcome, p_parsed, p_again_outcome,
               p_again>>

compileVars == <<c_pc, c_failed_step, c_entries, c_main, c_javac, c_result,
                 c_javac_invoked>>

vars == <<pairVars, qualVars, matchVars, roundVars, parseVars, compileVars>>

(***************************************************************************)
(* Bounds of the model.                                                    *)
(***************************************************************************)
MaxTeams == 3
MaxK == 3
MaxTickets == 6
NumQTeams == 2
MaxOutLines == 2
MaxErrLines == 2
NumRuns == 2
MaxRound == 2
MaxGames == 2
MaxStatBlocks == 4
MaxReparseBlocks == 2
MaxFiles == 2
MaxStatLines == 4
MaxExtraLines == 2
MaxScoreLines == 3
MaxLastLines == 3

(***************************************************************************)
(* create_match_pairs                                                      *)
(***************************************************************************)

\* ((teams.len() as f32 * match_num as f32) / 2.).ceil() as i32
games_to_play_bad(n, k) == (n * k) \div 2 + 1
games_to_play(n, k) == (n * k + 1) \div 2

\* std::iter::repeat(0..teams.len()).take(match_num).flatten().collect():
\* the team indices 1..n, the whole range repeated k times.
initial_players_bad(n, k) == [j \in 1..(n * (k + 1)) |-> ((j - 1) % n) + 1]
initial_players(n, k) == [j \in 1..(n * k) |-> ((j - 1) % n) + 1]

\* Vec::swap_remove(i): the element at i is replaced by the last one and the
\* vector loses its last position.
swap_remove_bad(v, i) == [j \in 1..(Len(v) - 1) |-> v[j]]
swap_remove(v, i) ==
    [j \in 1..(Len(v) - 1) |-> IF j = i THEN v[Len(v)] ELSE v[j]]

PairsRest ==
    /\ ppc = "off" /\ nteams = 0 /\ match_num = 1
    /\ players = <<>> /\ pairs = <<>> /\ first_team_index = 0

PairsInit ==
    /\ nteams \in 0..MaxTeams
    /\ match_num \in 1..MaxK
    /\ nteams * match_num <= MaxTickets
    /\ players = initial_players(nteams, match_num)
    /\ pairs = <<>>
    /\ first_team_index = 0
    /\ ppc = "loop"

\* while (pairs.len() as i32) < games_to_play: the loop is left when the
\* target is met.
PairsExit ==
    /\ ppc = "loop"
    /\ ~(Len(pairs) < games_to_play(nteams, match_num))
    /\ ppc' = "done"
    /\ UNCHANGED <<nteams, match_num, players, pairs, first_team_index>>
    /\ UNCHANGED <<qualVars, matchVars, roundVars, parseVars, compileVars>>

\* The first draw of an iteration, and the break on an empty pool.
PairsDrawFirst ==
    /\ ppc = "loop"
    /\ Len(pairs) < games_to_play(nteams, match_num)
    /\ IF Len(players) = 0
       THEN \* gen_range(0..0) panics on the empty range
            /\ ppc' = "panic"
            /\ UNCHANGED <<players, first_team_index>>
       ELSE \E random_index \in 1..Len(players) :
            /\ first_team_index' = players[random_index]
            /\ players' = swap_remove(players, random_index)
            /\ ppc' = IF Len(players') < 1 THEN "done" ELSE "second"
    /\ UNCHANGED <<nteams, match_num, pairs>>
    /\ UNCHANGED <<qualVars, matchVars, roundVars, parseVars, compileVars>>

\* The second draw and the push of the pair.
PairsDrawSecond ==
    /\ ppc = "second"
    /\ \E random_index \in 1..Len(players) :
          /\ pairs' = Append(pairs, <<first_team_index, players[random_index]>>)
          /\ players' = swap_remove(players, random_index)
    /\ ppc' = "loop"
    /\ UNCHANGED <<nteams, match_num, first_team_index>>
    /\ UNCHANGED <<qualVars, matchVars, roundVars, parseVars, compileVars>>

PairsNext == PairsExit \/ PairsDrawFirst \/ PairsDrawSecond

(***************************************************************************)
(* compile_team_bots: one worker per team (into_par_iter().filter_map).    *)
(***************************************************************************)

\* The teams of the model: teams whose bots are their own, a team that shares
\* bot a1 with another, and teams with an empty bot id.
TeamPool ==
    { [bot1 |-> "a1", bot2 |-> "a2"],
      [bot1 |-> "a1", bot2 |-> "b2"],
      [bot1 |-> "b1", bot2 |-> "b2"],
      [bot1 |-> "",   bot2 |-> "b2"],
      [bot1 |-> "b1", bot2 |-> ""] }

QTeams == 1..NumQTeams

\* if team.bot1.eq("") || team.bot2.eq("") { return None }
has_both_bots_bad(team) == ~(team.bot1 = "" /\ team.bot2 = "")
has_both_bots(team) == ~(team.bot1 = "" \/ team.bot2 = "")

\* if let Err(e) = compile_bot(&bot) { set_bot_error(bot, e.to_string()) }:
\* the bots whose error field is written after a compile outcome, the store
\* accepting the write or not.
errors_after_compile(written, bot, outcome, store_ok) ==
    IF outcome = "Err" /\ store_ok THEN written \cup {bot} ELSE written

QualRest ==
    /\ qteams = <<>> /\ tpc = <<>> /\ fetched = <<>> /\ compiled = <<>>
    /\ error_written = {} /\ results = {}

QualInit ==
    /\ qteams \in [QTeams -> TeamPool]
    /\ tpc = [t \in QTeams |-> "start"]
    /\ fetched = [t \in QTeams |-> <<"none", "none">>]
    /\ compiled = [t \in QTeams |-> <<"none", "none">>]
    /\ error_written = {}
    /\ results = {}

\* Skip teams without both bot1 and bot2.
QCheckBots(t) ==
    /\ tpc[t] = "start"
    /\ tpc' = [tpc EXCEPT ![t] = IF has_both_bots(qteams[t]) THEN "fetch1" ELSE "done"]
    /\ UNCHANGED <<qteams, fetched, compiled, error_written, results>>
    /\ UNCHANGED <<pairVars, matchVars, roundVars, parseVars, compileVars>>

\* get_bot_by_id(team.bot1), then get_bot_by_id(team.bot2): Err drops the team.
QFetch(t, slot) ==
    /\ tpc[t] = (IF slot = 1 THEN "fetch1" ELSE "fetch2")
    /\ \E outcome \in {"Ok", "Err"} :
          /\ fetched' = [fetched EXCEPT ![t][slot] = outcome]
          /\ tpc' = [tpc EXCEPT ![t] =
                        IF outcome = "Err" THEN "done"
                        ELSE IF slot = 1 THEN "fetch2" ELSE "compile1"]
    /\ UNCHANGED <<qteams, compiled, error_written, results>>
    /\ UNCHANGED <<pairVars, matchVars, roundVars, parseVars, compileVars>>

\* compile_bot(&bot1), then compile_bot(&bot2); a failure writes the bot's
\* error and drops the team; the team is returned after the second success.
QCompile(t, slot) ==
    /\ tpc[t] = (IF slot = 1 THEN "compile1" ELSE "compile2")
    /\ \E outcome \in {"Ok", "Err"}, store_ok \in BOOLEAN :
          LET bot == IF slot = 1 THEN qteams[t].bot1 ELSE qteams[t].bot2 IN
          /\ outcome = "Ok" => store_ok
          /\ compiled' = [compiled EXCEPT ![t][slot] = outcome]
          /\ error_written' = errors_after_compile(error_written, bot, outcome, store_ok)
          /\ tpc' = [tpc EXCEPT ![t] =
                        IF outcome = "Err" THEN "done"
                        ELSE IF slot = 1 THEN "compile2" ELSE "done"]
          /\ results' = IF outcome = "Ok" /\ slot = 2 THEN results \cup {t} ELSE results
    /\ UNCHANGED <<qteams, fetched>>
    /\ UNCHANGED <<pairVars, matchVars, roundVars, parseVars, compileVars>>

QualNext ==
    \E t \in QTeams :
        \/ QCheckBots(t)
        \/ \E slot \in 1..2 : QFetch(t, slot)
        \/ \E slot \in 1..2 : QCompile(t, slot)

(***************************************************************************)
(* Strings, as the Rust standard library treats them.                      *)
(***************************************************************************)

\* str::contains(pattern)
str_contains(s, p) ==
    \E i \in 1..(Len(s) - Len(p) + 1) : SubSeq(s, i, i + Len(p) - 1) = p

\* str::split(" "): the pieces between single spaces, empty pieces kept.
RECURSIVE str_split(_)
str_split(s) ==
    IF \E i \in 1..Len(s) : SubSeq(s, i, i) = " "
    THEN LET i == CHOOSE k \in 1..Len(s) :
                    /\ SubSeq(s, k, k) = " "
                    /\ \A j \in 1..(k - 1) : SubSeq(s, j, j) # " "
         IN <<SubSeq(s, 1, i - 1)>> \o str_split(SubSeq(s, i + 1, Len(s)))
    ELSE <<s>>

\* str::trim(): leading and trailing whitespace removed.
is_whitespace(c) == c \in {" ", "\n", "\t", "\r"}
RECURSIVE str_trim_start(_)
str_trim_start(s) ==
    IF Len(s) > 0 /\ is_whitespace(SubSeq(s, 1, 1))
    THEN str_trim_start(SubSeq(s, 2, Len(s))) ELSE s
RECURSIVE str_trim_end(_)
str_trim_end(s) ==
    IF Len(s) > 0 /\ is_whitespace(SubSeq(s, Len(s), Len(s)))
    THEN str_trim_end(SubSeq(s, 1, Len(s) - 1)) ELSE s
str_trim(s) == str_trim_end(str_trim_start(s))

\* [String]::join(sep) and [String]::concat()
RECURSIVE str_join(_, _)
str_join(v, sep) ==
    IF Len(v) = 0 THEN ""
    ELSE IF Len(v) = 1 THEN v[1]
    ELSE v[1] \o sep \o str_join(Tail(v), sep)
str_concat(v) == str_join(v, "")

\* str::replace("\\", "\\\\"): every backslash doubled.
RECURSIVE double_backslashes(_)
double_backslashes(s) ==
    IF Len(s) = 0 THEN ""
    ELSE (IF SubSeq(s, 1, 1) = "\\" THEN "\\\\" ELSE SubSeq(s, 1, 1))
            \o double_backslashes(SubSeq(s, 2, Len(s)))

\* str::parse::<i32>(): an optional sign, then decimal digits; a value outside
\* i32 is an error.
I32_MAX == 2147483647
I32_MIN == (0 - I32_MAX) - 1
Digits == <<"0", "1", "2", "3", "4", "5", "6", "7", "8", "9">>
is_digit(c) == \E d \in 1..10 : Digits[d] = c
digit_val(c) == (CHOOSE d \in 1..10 : Digits[d] = c) - 1
\* The digits are accumulated left to right, away from zero on the side of
\* the sign, and the accumulation fails when it leaves i32.
RECURSIVE accumulate_digits(_, _, _)
accumulate_digits(s, acc, negative) ==
    IF Len(s) = 0 THEN [ok |-> TRUE, val |-> acc]
    ELSE LET d == digit_val(SubSeq(s, 1, 1))
             rest == SubSeq(s, 2, Len(s))
         IN  IF negative
             THEN IF acc < 0 - (I32_MAX \div 10) \/ acc * 10 < I32_MIN + d
                  THEN [ok |-> FALSE, val |-> 0]
                  ELSE accumulate_digits(rest, acc * 10 - d, negative)
             ELSE IF acc > I32_MAX \div 10 \/ acc * 10 > I32_MAX - d
                  THEN [ok |-> FALSE, val |-> 0]
                  ELSE accumulate_digits(rest, acc * 10 + d, negative)
parse_i32(s) ==
    LET signed == Len(s) > 0 /\ SubSeq(s, 1, 1) \in {"-", "+"}
        body == IF signed THEN SubSeq(s, 2, Len(s)) ELSE s
        wellformed == Len(body) > 0 /\ \A i \in 1..Len(body) : is_digit(SubSeq(body, i, i))
    IN  IF wellformed
        THEN accumulate_digits(body, 0, Len(s) > 0 /\ SubSeq(s, 1, 1) = "-")
        ELSE [ok |-> FALSE, val |-> 0]
\* a + b leaves i32: a build with overflow checks (the dev profile) panics
\* there, one without them (the release profile) wraps around.
add_overflows(a, b) ==
    \/ a > 0 /\ b > 0 /\ a > I32_MAX - b
    \/ a < 0 /\ b < 0 /\ a < I32_MIN - b
\* a + b on i32, wrapping around as the release build does.
add_i32(a, b) ==
    IF a > 0 /\ b > 0 /\ a > I32_MAX - b THEN (a + I32_MIN) + (b + I32_MIN)
    ELSE IF a < 0 /\ b < 0 /\ a < I32_MIN - b THEN (a - I32_MIN) + (b - I32_MIN)
    ELSE a + b
\* .parse().unwrap_or(0)
parse_i32_or_0(s) == parse_i32(s).val
\* .parse::<bool>().unwrap_or(false)
parse_bool_or_false(s) == s = "true"

(***************************************************************************)
(* compile_bot: the checks on the unpacked sources and the compiler call.  *)
(***************************************************************************)

SeqsOfLen(S, n) == UNION { [1..k -> S] : k \in 0..n }

\* str::ends_with(pattern)
str_ends_with(s, p) == Len(s) >= Len(p) /\ SubSeq(s, Len(s) - Len(p) + 1, Len(s)) = p

\* entry.path().extension() == Some("java"): a name that ends in .java and
\* has a stem before the dot.
has_java_extension(name) == str_ends_with(name, ".java") /\ Len(name) > Len(".java")

\* What the workdir may hold after the unzip.
DirEntries == { "Player.java", "MyPlayer.java", "Player.java.java", "Bot.java", "Player.txt" }

\* The listings read_dir may yield: entries of the workdir, each once, in
\* any order.
Listings ==
    { l \in SeqsOfLen(DirEntries, MaxFiles) :
        \A i, j \in 1..Len(l) : i # j => l[i] # l[j] }

\* The steps before the listing, and the error the first one to fail returns.
EarlySteps ==
    { "create_dir_all", "workdir_to_str", "source_path_to_str", "cp", "file_name",
      "file_name_to_str", "unzip_target_to_str", "unzip", "read_dir" }
early_error(step) ==
    IF step \in {"create_dir_all", "cp", "unzip", "read_dir"} THEN "IOError"
    ELSE "InvalidPath"

\* java_files.iter().find(|file| file.contains("Player.java")).unwrap()
player_java_path_bad(java_files) ==
    java_files[CHOOSE i \in 1..Len(java_files) :
                  /\ str_ends_with(java_files[i], "Player.java")
                  /\ \A j \in 1..(i - 1) : ~str_ends_with(java_files[j], "Player.java")]
player_java_path(java_files) ==
    java_files[CHOOSE i \in 1..Len(java_files) :
                  /\ str_contains(java_files[i], "Player.java")
                  /\ \A j \in 1..(i - 1) : ~str_contains(java_files[j], "Player.java")]

\* compile_bot from the listing on: what it returns, and whether javac ran.
compile_listed(entries, main, javac) ==
    LET java_files == SelectSeq(entries, has_java_extension) IN
    IF Len(java_files) = 0
    THEN [result |-> "IOError", kind |-> "NotFound", javac_invoked |-> FALSE]
    ELSE IF ~\E i \in 1..Len(java_files) : str_ends_with(java_files[i], "Player.java")
    THEN [result |-> "PlayerFileMissing", kind |-> "", javac_invoked |-> FALSE]
    ELSE IF main[player_java_path(java_files)] # "Ok(true)"
    THEN [result |-> "MainMethodNotInPlayerFile", kind |-> "", javac_invoked |-> FALSE]
    ELSE IF javac = "Err"
    THEN [result |-> "IOError", kind |-> "javac", javac_invoked |-> TRUE]
    ELSE [result |-> "Ok", kind |-> "", javac_invoked |-> TRUE]

compile_bot(early_failure, entries, main, javac) ==
    IF early_failure # "none"
    THEN [result |-> early_error(early_failure), kind |-> early_failure,
          javac_invoked |-> FALSE]
    ELSE compile_listed(entries, main, javac)

CompileRest ==
    /\ c_pc = "off" /\ c_failed_step = "none" /\ c_entries = <<>>
    /\ c_main = [e \in DirEntries |-> "Ok(false)"] /\ c_javac = "Ok"
    /\ c_result = [result |-> "none", kind |-> "", javac_invoked |-> FALSE]
    /\ c_javac_invoked = FALSE

CompileInit ==
    /\ c_pc = "input"
    /\ c_failed_step \in EarlySteps \cup {"none"}
    /\ c_entries \in Listings
    /\ c_main \in [DirEntries -> {"Ok(true)", "Ok(false)", "Err"}]
    /\ c_main["Player.txt"] = "Ok(false)" /\ c_main["Bot.java"] = "Ok(false)"
    /\ c_javac \in {"Ok", "Err"}
    /\ c_result = [result |-> "none", kind |-> "", javac_invoked |-> FALSE]
    /\ c_javac_invoked = FALSE

CCompile ==
    /\ c_pc = "input"
    /\ c_result' = compile_bot(c_failed_step, c_entries, c_main, c_javac)
    /\ c_javac_invoked' = c_result'.javac_invoked
    /\ c_pc' = "returned"
    /\ UNCHANGED <<c_failed_step, c_entries, c_main, c_javac>>
    /\ UNCHANGED <<pairVars, qualVars, matchVars, roundVars, parseVars>>

CompileNext == CCompile

(***************************************************************************)
(* The game being built (NewGame2v2) and the per-player statistics.        *)
(***************************************************************************)

\* NewGame2v2::new(competition, round, team ids, bot ids): the flags, the
\* winner and the texts start empty.
NewGame2v2_new(round_no, team1, team2) ==
    [ round |-> round_no,
      team1_id |-> team1.id, team2_id |-> team2.id,
      team1bot1_id |-> team1.bot1, team1bot2_id |-> team1.bot2,
      team2bot1_id |-> team2.bot1, team2bot2_id |-> team2.bot2,
      team1bot1_survived |-> FALSE, team1bot2_survived |-> FALSE,
      team2bot1_survived |-> FALSE, team2bot2_survived |-> FALSE,
      winner_id |-> "", log_file_path |-> "", additional_data |-> "" ]

\* GamePlayerStats::default()
GamePlayerStats_default ==
    [ turns_played |-> 0, survived |-> FALSE, fleet_generated |-> 0,
      fleet_lost |-> 0, fleet_reinforced |-> 0, largest_attack |-> 0,
      largest_loss |-> 0, largest_reinforcement |-> 0, planets_lost |-> 0,
      planets_conquered |-> 0, planets_defended |-> 0, planets_attacked |-> 0,
      num_fleet_lost |-> 0, num_fleet_reinforced |-> 0,
      num_fleet_generated |-> 0, total_troops_generated |-> 0 ]

\* The keys of the '<key>: <value>' lines and the counter each one sets.
StatKeyField ==
    [ k \in { "turnsPlayed:", "fleetGenerated:", "fleetLost:", "fleetReinforced:",
              "largestAttack:", "largestLoss:", "largestReinforcement:",
              "planetsLost:", "planetsConquered:", "planetsDefended:",
              "planetsAttacked:", "numFleetLost:", "numFleetReinforced:",
              "numFleetGenerated:", "totalTroopsGenerated:" } |->
      CASE k = "turnsPlayed:" -> "turns_played"
        [] k = "fleetGenerated:" -> "fleet_generated"
        [] k = "fleetLost:" -> "fleet_lost"
        [] k = "fleetReinforced:" -> "fleet_reinforced"
        [] k = "largestAttack:" -> "largest_attack"
        [] k = "largestLoss:" -> "largest_loss"
        [] k = "largestReinforcement:" -> "largest_reinforcement"
        [] k = "planetsLost:" -> "planets_lost"
        [] k = "planetsConquered:" -> "planets_conquered"
        [] k = "planetsDefended:" -> "planets_defended"
        [] k = "planetsAttacked:" -> "planets_attacked"
        [] k = "numFleetLost:" -> "num_fleet_lost"
        [] k = "numFleetReinforced:" -> "num_fleet_reinforced"
        [] k = "numFleetGenerated:" -> "num_fleet_generated"
        [] k = "totalTroopsGenerated:" -> "total_troops_generated" ]

\* match parts[0] { "turnsPlayed:" => ..., "survive:" => ..., _ => () }
update_stat(stat, key, value) ==
    IF key = "survive:" THEN [stat EXCEPT !.survived = parse_bool_or_false(value)]
    ELSE IF key \in DOMAIN StatKeyField
         THEN [stat EXCEPT ![StatKeyField[key]] = parse_i32_or_0(value)]
    ELSE stat

(***************************************************************************)
(* parse_bugged_game                                                       *)
(***************************************************************************)

\* The inner loop over bot_ids: the first id, in slot order, the row contains.
first_bot_in_row(row, bot_ids) ==
    IF \E k \in 1..Len(bot_ids) : str_contains(row, bot_ids[k])
    THEN LET k == CHOOSE k \in 1..Len(bot_ids) :
                    /\ str_contains(row, bot_ids[k])
                    /\ \A j \in 1..(k - 1) : ~str_contains(row, bot_ids[j])
         IN <<bot_ids[k]>>
    ELSE <<>>

\* for row in errors.iter() { for bot_id in bot_ids.iter() { if row.contains(
\* bot_id) { bugged_bot_id_option = Some(bot_id); break; } } }: the break
\* leaves the inner loop only, every row is scanned.
RECURSIVE find_bugged_bot(_, _, _)
find_bugged_bot(errs, bot_ids, found) ==
    IF Len(errs) = 0 THEN found
    ELSE LET hit == first_bot_in_row(errs[1], bot_ids)
         IN find_bugged_bot(Tail(errs), bot_ids, IF hit # <<>> THEN hit ELSE found)

\* The four independent ifs on the blamed id, in source order.
blame_bad(game, bugged_bot_id) ==
    IF game.team1bot1_id = bugged_bot_id
    THEN [game EXCEPT !.team1bot1_survived = FALSE, !.winner_id = game.team2_id]
    ELSE IF game.team1bot2_id = bugged_bot_id
    THEN [game EXCEPT !.team1bot2_survived = FALSE, !.winner_id = game.team2_id]
    ELSE IF game.team2bot1_id = bugged_bot_id
    THEN [game EXCEPT !.team2bot1_survived = FALSE, !.winner_id = game.team1_id]
    ELSE IF game.team2bot2_id = bugged_bot_id
    THEN [game EXCEPT !.team2bot2_survived = FALSE, !.winner_id = game.team1_id]
    ELSE game
blame(game, bugged_bot_id) ==
    LET g1 == IF game.team1bot1_id = bugged_bot_id
              THEN [game EXCEPT !.team1bot1_survived = FALSE, !.winner_id = game.team2_id]
              ELSE game
        g2 == IF g1.team1bot2_id = bugged_bot_id
              THEN [g1 EXCEPT !.team1bot2_survived = FALSE, !.winner_id = g1.team2_id]
              ELSE g1
        g3 == IF g2.team2bot1_id = bugged_bot_id
              THEN [g2 EXCEPT !.team2bot1_survived = FALSE, !.winner_id = g2.team1_id]
              ELSE g2
    IN  IF g3.team2bot2_id = bugged_bot_id
        THEN [g3 EXCEPT !.team2bot2_survived = FALSE, !.winner_id = g3.team1_id]
        ELSE g3

parse_bugged_game(errs, game) ==
    LET bot_ids == << game.team1bot1_id, game.team1bot2_id,
                      game.team2bot1_id, game.team2bot2_id >>
        bugged_bot_id_option == find_bugged_bot(errs, bot_ids, <<>>)
        alive == [game EXCEPT !.team1bot1_survived = TRUE,
                                    !.team1bot2_survived = TRUE,
                                    !.team2bot1_survived = TRUE,
                                    !.team2bot2_survived = TRUE]
        blamed == IF bugged_bot_id_option # <<>>
                  THEN blame(alive, bugged_bot_id_option[1]) ELSE alive
    IN  [blamed EXCEPT !.additional_data =
            [ kind |-> "GameError",
              error |-> double_backslashes(str_join(errs, "\n")),
              blame_id |-> IF bugged_bot_id_option # <<>>
                           THEN bugged_bot_id_option[1] ELSE "Unknown" ]]

(***************************************************************************)
(* parse_healthy_game                                                      *)
(***************************************************************************)

\* The locals of the scan before the first line.
healthy_start ==
    [ r_green |-> 0, r_blue |-> 0, r_yellow |-> 0, r_cyan |-> 0,
      current_bot |-> <<>>, last_L |-> <<>>,
      stats |-> [k \in {} |-> GamePlayerStats_default],
      stats_keys |-> <<"team2bot2", "team1bot2", "team2bot1", "team1bot1">> ]

\* if line.contains("R ") { ... match parts[2] { "green" => ... } }
scan_score_bad(st, line) ==
    LET parts == str_split(line) IN
    IF str_contains(line, "R ") /\ Len(parts) = 3 /\ parse_i32(parts[2]).ok
    THEN CASE parts[3] = "green"  -> [st EXCEPT !.r_green = parse_i32_or_0(parts[2])]
           [] parts[3] = "blue"   -> [st EXCEPT !.r_blue = parse_i32_or_0(parts[2])]
           [] parts[3] = "yellow" -> [st EXCEPT !.r_yellow = parse_i32_or_0(parts[2])]
           [] parts[3] = "cyan"   -> [st EXCEPT !.r_cyan = parse_i32_or_0(parts[2])]
           [] OTHER -> st
    ELSE st
scan_score(st, line) ==
    LET parts == str_split(line) IN
    IF str_contains(line, "R ") /\ Len(parts) = 3
    THEN CASE parts[3] = "green"  -> [st EXCEPT !.r_green = parse_i32_or_0(parts[2])]
           [] parts[3] = "blue"   -> [st EXCEPT !.r_blue = parse_i32_or_0(parts[2])]
           [] parts[3] = "yellow" -> [st EXCEPT !.r_yellow = parse_i32_or_0(parts[2])]
           [] parts[3] = "cyan"   -> [st EXCEPT !.r_cyan = parse_i32_or_0(parts[2])]
           [] OTHER -> st
    ELSE st

\* if line.contains("L ") { last_L = Some(line) }
scan_last_L(st, line) ==
    IF str_contains(line, "L ") THEN [st EXCEPT !.last_L = <<line>>] ELSE st

\* if line.contains("STAT: ") { if let Some(next_key) = stats_keys.pop() {...} }
scan_stat_drop(st, line) ==
    IF str_contains(line, "STAT: ")
    THEN IF Len(st.stats_keys) > 0
         THEN LET next_key == st.stats_keys[Len(st.stats_keys)] IN
              [st EXCEPT !.stats_keys = SubSeq(st.stats_keys, 1, Len(st.stats_keys) - 1),
                         !.current_bot = <<next_key>>,
                         !.stats = (next_key :> GamePlayerStats_default) @@ st.stats]
         ELSE [st EXCEPT !.current_bot = <<>>]
    ELSE st
scan_stat_bad(st, line) ==
    IF str_contains(line, "STAT: ") /\ Len(st.stats_keys) > 0
    THEN LET next_key == st.stats_keys[1] IN
         [st EXCEPT !.stats_keys = Tail(st.stats_keys),
                    !.current_bot = <<next_key>>,
                    !.stats = (next_key :> GamePlayerStats_default) @@ st.stats]
    ELSE st
scan_stat(st, line) ==
    IF str_contains(line, "STAT: ") /\ Len(st.stats_keys) > 0
    THEN LET next_key == st.stats_keys[Len(st.stats_keys)] IN
         [st EXCEPT !.stats_keys = SubSeq(st.stats_keys, 1, Len(st.stats_keys) - 1),
                    !.current_bot = <<next_key>>,
                    !.stats = (next_key :> GamePlayerStats_default) @@ st.stats]
    ELSE st

\* if let Some(bot_key) = &current_bot { if parts.len() == 2 { ... } }
scan_key_value(st, line) ==
    LET parts == str_split(line) IN
    IF st.current_bot # <<>> /\ Len(parts) = 2 /\ st.current_bot[1] \in DOMAIN st.stats
    THEN [st EXCEPT !.stats[st.current_bot[1]] = update_stat(@, parts[1], parts[2])]
    ELSE st

\* The body of for line in lines.into_iter()
scan_line(st, line) ==
    scan_key_value(scan_stat(scan_last_L(scan_score(st, line), line), line), line)

RECURSIVE scan_lines(_, _)
scan_lines(st, lines) ==
    IF Len(lines) = 0 THEN st ELSE scan_lines(scan_line(st, lines[1]), Tail(lines))

\* stats.get(key).survived, false when the key is absent
stat_survived(stats, key) == IF key \in DOMAIN stats THEN stats[key].survived ELSE FALSE

\* match (t1b1, t1b2, t2b1, t2b2) { ... }: the survivor table
table_winner(game) ==
    LET flags == << game.team1bot1_survived, game.team1bot2_survived,
                    game.team2bot1_survived, game.team2bot2_survived >> IN
    IF flags \in { <<TRUE, TRUE, FALSE, FALSE>>, <<TRUE, FALSE, FALSE, FALSE>>,
                   <<FALSE, TRUE, FALSE, FALSE>> } THEN game.team1_id
    ELSE IF flags \in { <<FALSE, FALSE, TRUE, TRUE>>, <<FALSE, FALSE, TRUE, FALSE>>,
                        <<FALSE, FALSE, FALSE, TRUE>> } THEN game.team2_id
    ELSE ""

\* let t1_score = r_yellow + r_green; let t2_score = r_blue + r_cyan; leaves i32
score_overflows(st) ==
    add_overflows(st.r_yellow, st.r_green) \/ add_overflows(st.r_blue, st.r_cyan)

\* The orders in which a HashMap with these keys may be iterated: the hasher
\* of each HashMap::new() is seeded at random, any order of the keys can occur.
hashmap_iter_orders(keys) ==
    { order \in [1..Cardinality(keys) -> keys] :
        \A i, j \in 1..Cardinality(keys) : i # j => order[i] # order[j] }

\* serde_json::to_string(&stats): the entries of the map, written in the
\* order the map is iterated.
to_string_stats(stats, order) ==
    [ kind |-> "stats", entries |-> [i \in 1..Len(order) |-> <<order[i], stats[order[i]]>>] ]

\* if t1_score > t2_score { team1 } else { team2 }, on i32 sums
score_winner_tie(game, st) ==
    IF add_i32(st.r_yellow, st.r_green) > add_i32(st.r_blue, st.r_cyan) THEN game.team1_id
    ELSE IF add_i32(st.r_yellow, st.r_green) < add_i32(st.r_blue, st.r_cyan)
    THEN game.team2_id ELSE ""
score_winner_bad(game, st) ==
    IF add_i32(st.r_yellow, st.r_green) >= add_i32(st.r_blue, st.r_cyan)
    THEN game.team1_id ELSE game.team2_id
score_winner(game, st) ==
    IF add_i32(st.r_yellow, st.r_green) > add_i32(st.r_blue, st.r_cyan)
    THEN game.team1_id ELSE game.team2_id

\* if stats.is_empty() && last_L.is_some()
hands_over_bad(st) == st.last_L # <<>>
hands_over(st) == DOMAIN st.stats = {} /\ st.last_L # <<>>

\* The keys of the stats map at the end of the scan.
scanned_keys(lines) == DOMAIN scan_lines(healthy_start, lines).stats

parse_healthy_game(lines, game, order) ==
    LET st == scan_lines(healthy_start, lines)
        flagged == [game EXCEPT
                        !.team1bot1_survived = stat_survived(st.stats, "team1bot1"),
                        !.team1bot2_survived = stat_survived(st.stats, "team1bot2"),
                        !.team2bot1_survived = stat_survived(st.stats, "team2bot1"),
                        !.team2bot2_survived = stat_survived(st.stats, "team2bot2")]
        tabled == [flagged EXCEPT !.winner_id = table_winner(flagged)]
        decided == IF tabled.winner_id = ""
                   THEN [tabled EXCEPT !.winner_id = score_winner(tabled, st)]
                   ELSE tabled
    IN  IF hands_over(st)
        THEN parse_bugged_game(<<st.last_L[1]>>, decided)
        ELSE [decided EXCEPT !.additional_data = to_string_stats(st.stats, order)]

\* The score sums are computed when the survivor table names no winner.
parse_healthy_overflows(lines, game) ==
    LET st == scan_lines(healthy_start, lines)
        flagged == [game EXCEPT
                        !.team1bot1_survived = stat_survived(st.stats, "team1bot1"),
                        !.team1bot2_survived = stat_survived(st.stats, "team1bot2"),
                        !.team2bot1_survived = stat_survived(st.stats, "team2bot1"),
                        !.team2bot2_survived = stat_survived(st.stats, "team2bot2")]
    IN  table_winner(flagged) = "" /\ score_overflows(st)

\* parse_game up to the store: bugged mode on more than one stderr line.
parsed_game(lines, errs, game, order) ==
    IF Len(errs) > 1
    THEN parse_bugged_game(errs, game)
    ELSE parse_healthy_game(lines, game, order)

\* The parse panics: healthy mode adds scores that leave i32, in a build with
\* overflow checks.
parse_panics(lines, errs, game, overflow_checks) ==
    overflow_checks /\ Len(errs) <= 1 /\ parse_healthy_overflows(lines, game)

(***************************************************************************)
(* run_match: one match from the staging directory to the stored game.     *)
(***************************************************************************)

TeamA == [id |-> "A", bot1 |-> "a1", bot2 |-> "a2"]
TeamB == [id |-> "B", bot1 |-> "b1", bot2 |-> "b2"]

\* The pairs create_match_pairs hands over: two teams, or a team with itself.
MatchPairs == { <<TeamA, TeamB>>, <<TeamA, TeamA>> }

\* What the evaluator may write, line by line.
StdoutLines == { "R 5 green", "R 3 cyan", "STAT: p", "survive: true", "L a1 crashed" }
StderrLines == { "...", " ", "Exception in bot a1", "b2 failed" }
SeqsUpTo(S, n) == UNION { [1..k -> S] : k \in 0..n }

\* child.wait_timeout(120 s): Err is returned as IOError; None (the timeout)
\* kills and reaps the child and goes on; Some(status) goes on.
after_wait_bad(timeout_result) ==
    CASE timeout_result = "Err" ->
            [next |-> "done", result |-> "IOError", child |-> "running", timed_out |-> FALSE]
      [] timeout_result = "None" ->
            [next |-> "done", result |-> "TimeoutError", child |-> "killed", timed_out |-> TRUE]
      [] OTHER ->
            [next |-> "join", result |-> "none", child |-> "exited", timed_out |-> FALSE]
after_wait(timeout_result) ==
    CASE timeout_result = "Err" ->
            [next |-> "done", result |-> "IOError", child |-> "running", timed_out |-> FALSE]
      [] timeout_result = "None" ->
            [next |-> "join", result |-> "none", child |-> "killed", timed_out |-> TRUE]
      [] OTHER ->
            [next |-> "join", result |-> "none", child |-> "exited", timed_out |-> FALSE]

\* if !errors.concat().trim().eq("...")
needs_error_file_bad(errs) == Len(errs) > 0 /\ str_concat(errs) # "..."
needs_error_file(errs) == str_trim(str_concat(errs)) # "..."

MatchRest ==
    /\ mpc = "off" /\ m_team1 = TeamA /\ m_team2 = TeamA
    /\ match_game = NewGame2v2_new(0, TeamA, TeamA)
    /\ staging_exists = FALSE /\ child = "none" /\ timed_out = FALSE
    /\ output = <<>> /\ errors = <<>> /\ archive = <<>> /\ error_file = <<>>
    /\ stored_game = <<>> /\ failed_step = "none" /\ m_result = "none"
    /\ pipe_writers = {} /\ readers = "none"

MatchInit ==
    /\ \E p \in MatchPairs :
          /\ m_team1 = p[1] /\ m_team2 = p[2]
          /\ match_game = NewGame2v2_new(0, p[1], p[2])
    /\ mpc = "stage"
    /\ staging_exists = FALSE /\ child = "none" /\ timed_out = FALSE
    /\ output = <<>> /\ errors = <<>> /\ archive = <<>> /\ error_file = <<>>
    /\ stored_game = <<>> /\ failed_step = "none" /\ m_result = "none"
    /\ pipe_writers = {} /\ readers = "none"

\* create_dir_all(match_folder), create_dir_all(output_dir) and the
\* recursive_copy of the four bots: the first failure returns IOError.
MStage ==
    /\ mpc = "stage"
    /\ \E step \in {"none", "create_match_folder", "create_output_dir", "recursive_copy"} :
          /\ staging_exists' = (step # "create_match_folder")
          /\ failed_step' = step
          /\ mpc' = IF step = "none" THEN "spawn" ELSE "done"
          /\ m_result' = IF step = "none" THEN "none" ELSE "IOError"
    /\ UNCHANGED <<m_team1, m_team2, match_game, child, timed_out, output, errors,
                   archive, error_file, stored_game, pipe_writers, readers>>
    /\ UNCHANGED <<pairVars, qualVars, roundVars, parseVars, compileVars>>

\* Command::new("java")...spawn() with both streams piped, and the two
\* thread::spawn readers that collect lines() until end of stream
MSpawn ==
    /\ mpc = "spawn"
    /\ \E ok \in BOOLEAN :
          /\ child' = IF ok THEN "running" ELSE "none"
          /\ failed_step' = IF ok THEN "none" ELSE "spawn"
          /\ mpc' = IF ok THEN "wait" ELSE "done"
          /\ m_result' = IF ok THEN "none" ELSE "IOError"
          /\ pipe_writers' = IF ok THEN {"evaluator"} ELSE {}
          /\ readers' = IF ok THEN "running" ELSE "none"
    /\ UNCHANGED <<m_team1, m_team2, match_game, staging_exists, timed_out, output,
                   errors, archive, error_file, stored_game>>
    /\ UNCHANGED <<pairVars, qualVars, roundVars, parseVars, compileVars>>

\* child.wait_timeout(..)?; on None: child.kill(); child.wait()
MWait ==
    /\ mpc = "wait"
    /\ \E timeout_result \in {"Err", "None", "Some"} :
          LET w == after_wait(timeout_result) IN
          /\ child' = w.child
          /\ timed_out' = w.timed_out
          /\ failed_step' = IF timeout_result = "Err" THEN "wait_timeout" ELSE "none"
          /\ mpc' = w.next
          /\ m_result' = w.result
          /\ pipe_writers' = IF w.child = "running" THEN pipe_writers
                              ELSE pipe_writers \ {"evaluator"}
    /\ UNCHANGED <<m_team1, m_team2, match_game, staging_exists, output, errors,
                   archive, error_file, stored_game, readers>>
    /\ UNCHANGED <<pairVars, qualVars, roundVars, parseVars, compileVars>>

\* stdout_handle.join(), stderr_handle.join(): the lines the evaluator wrote.
\* A reader ends at end of stream, when no process holds the write end.
MJoin ==
    /\ mpc = "join"
    /\ pipe_writers = {}
    /\ readers' = "joined"
    /\ output' \in SeqsUpTo(StdoutLines, MaxOutLines)
    /\ errors' \in SeqsUpTo(StderrLines, MaxErrLines)
    /\ mpc' = "save"
    /\ UNCHANGED <<m_team1, m_team2, match_game, staging_exists, child, timed_out,
                   archive, error_file, stored_game, failed_step, m_result, pipe_writers>>
    /\ UNCHANGED <<pairVars, qualVars, roundVars, parseVars, compileVars>>

\* save_to_zip(output.join("\n"), &output_file), then the error file
MSave ==
    /\ mpc = "save"
    /\ \E zip_ok \in BOOLEAN, write_ok \in BOOLEAN :
          /\ ~zip_ok => write_ok
          /\ ~needs_error_file(errors) => write_ok
          /\ archive' = IF zip_ok THEN <<str_join(output, "\n")>> ELSE <<>>
          /\ match_game' = IF zip_ok THEN [match_game EXCEPT !.log_file_path = "zip"]
                           ELSE match_game
          /\ error_file' = IF zip_ok /\ needs_error_file(errors) /\ write_ok
                           THEN <<str_join(errors, "\n")>> ELSE <<>>
          /\ failed_step' = IF ~zip_ok THEN "save_to_zip"
                            ELSE IF ~write_ok THEN "write_error_file" ELSE "none"
          /\ mpc' = IF zip_ok /\ write_ok THEN "parse" ELSE "done"
          /\ m_result' = IF zip_ok /\ write_ok THEN "none" ELSE "IOError"
    /\ UNCHANGED <<m_team1, m_team2, staging_exists, child, timed_out, output, errors,
                   stored_game, pipe_writers, readers>>
    /\ UNCHANGED <<pairVars, qualVars, roundVars, parseVars, compileVars>>

\* parse_game(output, errors, match_game): the parse, calc_elo_changes and
\* insert_game
MParse ==
    /\ mpc = "parse"
    /\ \E overflow_checks \in BOOLEAN :
          IF parse_panics(output, errors, match_game, overflow_checks)
          THEN /\ match_game' = match_game
               /\ stored_game' = <<>>
               /\ failed_step' = "parse"
               /\ m_result' = "panic"
          ELSE /\ \E order \in hashmap_iter_orders(scanned_keys(output)) :
                     match_game' = parsed_game(output, errors, match_game, order)
               /\ \E elo_ok \in BOOLEAN, insert_ok \in BOOLEAN :
                     /\ ~elo_ok => insert_ok
                     /\ stored_game' = IF elo_ok /\ insert_ok THEN <<match_game'>> ELSE <<>>
                     /\ failed_step' = IF ~elo_ok THEN "calc_elo_changes"
                                       ELSE IF ~insert_ok THEN "insert_game" ELSE "none"
                     /\ m_result' = IF elo_ok /\ insert_ok THEN "Ok" ELSE "DatabaseError"
    /\ mpc' = "done"
    /\ UNCHANGED <<m_team1, m_team2, staging_exists, child, timed_out, output, errors,
                   archive, error_file, pipe_writers, readers>>
    /\ UNCHANGED <<pairVars, qualVars, roundVars, parseVars, compileVars>>

\* The evaluator starts a process (a bot's java Player) that inherits its
\* stdout and stderr.
MFork ==
    /\ mpc = "wait"
    /\ child = "running"
    /\ "descendant" \notin pipe_writers
    /\ pipe_writers' = pipe_writers \cup {"descendant"}
    /\ UNCHANGED <<mpc, m_team1, m_team2, match_game, staging_exists, child, timed_out,
                   output, errors, archive, error_file, stored_game, failed_step,
                   m_result, readers>>
    /\ UNCHANGED <<pairVars, qualVars, roundVars, parseVars, compileVars>>

\* Such a process ends by itself; run_match does nothing to end it.
MDescendantExit ==
    /\ "descendant" \in pipe_writers
    /\ pipe_writers' = pipe_writers \ {"descendant"}
    /\ UNCHANGED <<mpc, m_team1, m_team2, match_game, staging_exists, child, timed_out,
                   output, errors, archive, error_file, stored_game, failed_step,
                   m_result, readers>>
    /\ UNCHANGED <<pairVars, qualVars, roundVars, parseVars, compileVars>>

MatchNext ==
    MStage \/ MSpawn \/ MFork \/ MDescendantExit \/ MWait \/ MJoin \/ MSave \/ MParse

(***************************************************************************)
(* The parser on its own: parse_game's choice of parse_bugged_game or      *)
(* parse_healthy_game, applied to evaluator transcripts.                   *)
(***************************************************************************)

\* A STAT block per survive value: the 'STAT: ' line, then its 'survive:' line.
RECURSIVE stat_blocks(_)
stat_blocks(survive_values) ==
    IF Len(survive_values) = 0 THEN <<>>
    ELSE <<"STAT: p", "survive: " \o survive_values[1]>> \o stat_blocks(Tail(survive_values))

\* The 'R <n> <colour>' lines of a game: none, team1 ahead, team2 ahead, a
\* tie, and scores the sum of which leaves i32.
ScoreLines ==
    { <<>>, <<"R 5 green", "R 3 cyan">>, <<"R 3 yellow", "R 5 blue">>,
      <<"R 4 green", "R 4 blue">>, <<"R 2147483647 yellow", "R 1 green">> }

\* The 'L ...' line of a game: none, one naming a bot, one naming none.
LastLines == { <<>>, <<"L a1 crashed">>, <<"L none">> }

\* A game that ran: at most one stderr line, scores, an L line, STAT blocks.
Transcripts(blocks) ==
    { [lines |-> sc \o ll \o stat_blocks(sv), errs |-> e] :
        sc \in ScoreLines, ll \in LastLines,
        sv \in SeqsUpTo({"true", "false"}, blocks), e \in {<<>>, <<"...">>} }

\* A game with any stderr, and little or nothing on stdout.
CrashReports ==
    { [lines |-> l, errs |-> e] :
        l \in {<<>>, <<"R 5 green">>}, e \in SeqsUpTo(StderrLines, MaxErrLines) }

\* The STAT part of a game in any shape: 'STAT: ' lines and '<key>: <value>'
\* lines in any order, values that parse and values that do not.
StatLines == { "STAT: p", "survive: true", "turnsPlayed: 7", "turnsPlayed: x", "fleetLost: 2" }
StatTranscripts ==
    { [lines |-> l, errs |-> <<>>] : l \in SeqsUpTo(StatLines, MaxStatLines) }

\* Four STAT blocks and what may follow them: more 'STAT: ' lines and more
\* '<key>: <value>' lines.
ExtraLines == { "STAT: q", "survive: false", "turnsPlayed: 7" }
OverfullTranscripts ==
    { [lines |-> stat_blocks(sv) \o extra, errs |-> <<"...">>] :
        sv \in { <<"true", "true", "true", "true">>, <<"false", "true", "false", "true">> },
        extra \in SeqsUpTo(ExtraLines, MaxExtraLines) }

\* The score part of a game in any shape: several lines for a colour, a
\* value that is no number, a colour that is none of the four, a line of
\* four tokens.
ScoreOnlyLines ==
    { "R 5 green", "R 7 green", "R x green", "R 4 blue", "R 9 yellow", "R 2 cyan",
      "R 3 purple", "R  6 green" }
ScoreTranscripts ==
    { [lines |-> l, errs |-> <<"...">>] : l \in SeqsUpTo(ScoreOnlyLines, MaxScoreLines) }

\* 'L ' lines in any number and order, with and without a STAT line.
LastLineLines == { "L a1 crashed", "L b2 out", "L none", "STAT: p" }
LastLineTranscripts ==
    { [lines |-> l, errs |-> <<"...">>] : l \in SeqsUpTo(LastLineLines, MaxLastLines) }

ParseInputs(blocks) ==
    CrashReports \cup Transcripts(blocks) \cup StatTranscripts \cup OverfullTranscripts
        \cup ScoreTranscripts \cup LastLineTranscripts

ParseRest ==
    /\ p_pc = "off" /\ p_lines = <<>> /\ p_errs = <<>>
    /\ p_game = NewGame2v2_new(0, TeamA, TeamA)
    /\ p_outcome = "none" /\ p_parsed = NewGame2v2_new(0, TeamA, TeamA)
    /\ p_again_outcome = "none" /\ p_again = NewGame2v2_new(0, TeamA, TeamA)

ParseInput(inputs) ==
    /\ \E p \in MatchPairs, input \in inputs :
          /\ p_lines = input.lines /\ p_errs = input.errs
          /\ p_game = NewGame2v2_new(0, p[1], p[2])
          /\ p_parsed = NewGame2v2_new(0, p[1], p[2])
          /\ p_again = NewGame2v2_new(0, p[1], p[2])
    /\ p_pc = "input" /\ p_outcome = "none" /\ p_again_outcome = "none"

ParseInit == ParseInput(ParseInputs(MaxStatBlocks))
ReparseInit == ParseInput(CrashReports \cup Transcripts(MaxReparseBlocks))

\* parse_game's first statement on (lines, errors, match_game)
PParse ==
    /\ p_pc = "input"
    /\ \E overflow_checks \in BOOLEAN :
          IF parse_panics(p_lines, p_errs, p_game, overflow_checks)
          THEN p_outcome' = "panic" /\ p_parsed' = p_parsed
          ELSE /\ p_outcome' = "game"
               /\ \E order \in hashmap_iter_orders(scanned_keys(p_lines)) :
                     p_parsed' = parsed_game(p_lines, p_errs, p_game, order)
    /\ p_pc' = "parsed"
    /\ UNCHANGED <<p_lines, p_errs, p_game, p_again_outcome, p_again>>
    /\ UNCHANGED <<pairVars, qualVars, matchVars, roundVars, compileVars>>

\* The same statement once more, on the same arguments.
PParseAgain ==
    /\ p_pc = "parsed"
    /\ \E overflow_checks \in BOOLEAN :
          IF parse_panics(p_lines, p_errs, p_game, overflow_checks)
          THEN p_again_outcome' = "panic" /\ p_again' = p_again
          ELSE /\ p_again_outcome' = "game"
               /\ \E order \in hashmap_iter_orders(scanned_keys(p_lines)) :
                     p_again' = parsed_game(p_lines, p_errs, p_game, order)
    /\ p_pc' = "reparsed"
    /\ UNCHANGED <<p_lines, p_errs, p_game, p_outcome, p_parsed>>
    /\ UNCHANGED <<pairVars, qualVars, matchVars, roundVars, compileVars>>

ParseNext == PParse
ReparseNext == PParse \/ PParseAgain

(***************************************************************************)
(* run_2v2_round: executions of a round on one competition, which may      *)
(* overlap in time, and cleanup_matches.                                   *)
(***************************************************************************)

Runs == 1..NumRuns

\* The teams of the competition: two with both bots, one without its first.
RoundTeams == << TeamA, TeamB, [id |-> "C", bot1 |-> "", bot2 |-> "c2"] >>

\* The vectors create_match_pairs can return for n teams: every sequence of
\* draws of the loop, the pairs as indices into the team vector.
RECURSIVE pair_outcomes(_, _, _)
pair_outcomes(pool, made, target) ==
    IF ~(Len(made) < target) THEN {made}
    ELSE UNION { LET first == pool[i]
                     rest == swap_remove(pool, i)
                 IN  IF Len(rest) < 1 THEN {made}
                     ELSE UNION { pair_outcomes(swap_remove(rest, j),
                                                Append(made, <<first, rest[j]>>),
                                                target) : j \in 1..Len(rest) }
               : i \in 1..Len(pool) }
create_match_pairs(k, n) == pair_outcomes(initial_players(n, k), <<>>, games_to_play(n, k))

\* set_competition_round(id, new_round): the store keeps the round it is given.
set_competition_round(stored, new_round) == new_round

\* The stored round after set_competition_round(..) returned: a write that
\* returned Err stored nothing.
after_set_round_bad(ok, stored, new_round) == set_competition_round(stored, new_round)
after_set_round(ok, stored, new_round) ==
    IF ok THEN set_competition_round(stored, new_round) ELSE stored

\* match_pairs.par_iter().for_each(..) returns when every pair was run and
\* every closure has ended, the push of its game included.
all_matches_returned_bad(ms) == \A i \in 1..Len(ms) : ms[i] \in {"returned", "Ok", "Err"}
all_matches_returned(ms) == \A i \in 1..Len(ms) : ms[i] \in {"Ok", "Err"}

\* match run_match(..) { Ok(g) => games.lock().unwrap().push(g),
\*                       Err(e) => eprintln!(..) }
after_match_bad(res) == [push |-> res = "Ok", abort |-> res = "Err"]
after_match(res) == [push |-> res = "Ok", abort |-> FALSE]

\* Err(e) => return Err(MatchMakerError::DatabaseError(e)) on either load
after_load_bad(step, ok) == IF step = "load_competition" THEN "loaded" ELSE "matches"
after_load(step, ok) ==
    IF ~ok THEN "done" ELSE IF step = "load_competition" THEN "loaded" ELSE "matches"

\* The steps of run_2v2_round after the matches.
after_elo_bad(ok) == IF ok THEN "set_round" ELSE "done"
after_elo(ok) == IF ok THEN "cleanup" ELSE "done"

RoundRest ==
    /\ round = 0 /\ games_per_round = 1
    /\ rpc = <<>> /\ comp_round = <<>> /\ ncompiled = <<>> /\ mstate = <<>>
    /\ games = <<>> /\ match_dirs = {} /\ ok_steps = <<>>
    /\ failed_at = <<>> /\ r_result = <<>>

RoundInit ==
    /\ round = 0
    /\ games_per_round \in 1..MaxGames
    /\ rpc = [r \in Runs |-> "idle"]
    /\ comp_round = [r \in Runs |-> 0]
    /\ ncompiled = [r \in Runs |-> 0]
    /\ mstate = [r \in Runs |-> <<>>]
    /\ games = [r \in Runs |-> <<>>]
    /\ match_dirs = {}
    /\ ok_steps = [r \in Runs |-> {}]
    /\ failed_at = [r \in Runs |-> "none"]
    /\ r_result = [r \in Runs |-> "none"]

\* get_competition_by_id(competition_id)
RLoadCompetition(r) ==
    /\ rpc[r] = "idle"
    /\ round < MaxRound
    /\ \E ok \in BOOLEAN :
          /\ comp_round' = [comp_round EXCEPT ![r] = IF ok THEN round ELSE @]
          /\ rpc' = [rpc EXCEPT ![r] = after_load("load_competition", ok)]
          /\ failed_at' = [failed_at EXCEPT ![r] = IF ok THEN "none" ELSE "load_competition"]
          /\ r_result' = [r_result EXCEPT ![r] = IF ok THEN "none" ELSE "DatabaseError"]
    /\ UNCHANGED <<round, games_per_round, ncompiled, mstate, games, match_dirs, ok_steps>>
    /\ UNCHANGED <<pairVars, qualVars, matchVars, parseVars, compileVars>>

\* get_teams_by_competition_id, compile_team_bots and create_match_pairs
RPrepare(r) ==
    /\ rpc[r] = "loaded"
    /\ \E ok \in BOOLEAN :
          IF ~ok
          THEN /\ rpc' = [rpc EXCEPT ![r] = after_load("load_teams", ok)]
               /\ failed_at' = [failed_at EXCEPT ![r] = "load_teams"]
               /\ r_result' = [r_result EXCEPT ![r] = "DatabaseError"]
               /\ UNCHANGED <<ncompiled, mstate>>
          ELSE \E compiled_teams \in SUBSET { t \in 1..Len(RoundTeams) :
                                              has_both_bots(RoundTeams[t]) } :
               \E match_pairs \in create_match_pairs(games_per_round,
                                                     Cardinality(compiled_teams)) :
               /\ ncompiled' = [ncompiled EXCEPT ![r] = Cardinality(compiled_teams)]
               /\ mstate' = [mstate EXCEPT ![r] = [i \in 1..Len(match_pairs) |-> "pending"]]
               /\ rpc' = [rpc EXCEPT ![r] = after_load("load_teams", ok)]
               /\ UNCHANGED <<failed_at, r_result>>
    /\ UNCHANGED <<round, games_per_round, comp_round, games, match_dirs, ok_steps>>
    /\ UNCHANGED <<pairVars, qualVars, matchVars, parseVars, compileVars>>

\* run_match up to the staging directory: create_dir_all(match_folder)
RMatchStage(r, i) ==
    /\ rpc[r] = "matches"
    /\ mstate[r][i] = "pending"
    /\ \E ok \in BOOLEAN :
          LET a == after_match(IF ok THEN "Ok" ELSE "Err") IN
          /\ match_dirs' = IF ok THEN match_dirs \cup {<<r, i>>} ELSE match_dirs
          /\ mstate' = [mstate EXCEPT ![r][i] = IF ok THEN "staged" ELSE "Err"]
          /\ rpc' = [rpc EXCEPT ![r] = IF a.abort THEN "done" ELSE @]
          /\ r_result' = [r_result EXCEPT ![r] = IF a.abort THEN "IOError" ELSE @]
    /\ UNCHANGED <<round, games_per_round, comp_round, ncompiled, games, ok_steps, failed_at>>
    /\ UNCHANGED <<pairVars, qualVars, matchVars, parseVars, compileVars>>

\* The rest of run_match, up to its return.  The staging directory stays on
\* disk; from here on it is one of the directories of returned matches,
\* which match_dirs holds under the one name <<0, 0>>.
RMatchReturn(r, i) ==
    /\ rpc[r] = "matches"
    /\ mstate[r][i] = "staged"
    /\ \E res \in {"Ok", "Err"} :
          LET a == after_match(res) IN
          /\ mstate' = [mstate EXCEPT ![r][i] = IF a.push THEN "returned" ELSE res]
          /\ games' = games
          /\ rpc' = [rpc EXCEPT ![r] = IF a.abort THEN "done" ELSE @]
          /\ r_result' = [r_result EXCEPT ![r] = IF a.abort THEN "IOError" ELSE @]
    /\ match_dirs' = IF <<r, i>> \in match_dirs
                     THEN (match_dirs \ {<<r, i>>}) \cup {<<0, 0>>}
                     ELSE match_dirs
    /\ UNCHANGED <<round, games_per_round, comp_round, ncompiled, ok_steps, failed_at>>
    /\ UNCHANGED <<pairVars, qualVars, matchVars, parseVars, compileVars>>

\* Ok(g) => { let mut games_lock = games.lock().unwrap(); games_lock.push(g) }:
\* the mutex is held from the lock to the end of the arm, the push is one step.
RPush(r, i) ==
    /\ rpc[r] = "matches"
    /\ mstate[r][i] = "returned"
    /\ games' = [games EXCEPT ![r] = Append(@, i)]
    /\ mstate' = [mstate EXCEPT ![r][i] = "Ok"]
    /\ UNCHANGED <<round, games_per_round, rpc, comp_round, ncompiled, match_dirs,
                   ok_steps, failed_at, r_result>>
    /\ UNCHANGED <<pairVars, qualVars, matchVars, parseVars, compileVars>>

\* pool.install(..) has returned: Arc::try_unwrap, into_inner
RBarrier(r) ==
    /\ rpc[r] = "matches"
    /\ all_matches_returned(mstate[r])
    /\ rpc' = [rpc EXCEPT ![r] = "elo"]
    /\ UNCHANGED <<round, games_per_round, comp_round, ncompiled, mstate, games,
                   match_dirs, ok_steps, failed_at, r_result>>
    /\ UNCHANGED <<pairVars, qualVars, matchVars, parseVars, compileVars>>

\* update_team_elo(games_vec)
RElo(r) ==
    /\ rpc[r] = "elo"
    /\ \E ok \in BOOLEAN :
          /\ rpc' = [rpc EXCEPT ![r] = after_elo(ok)]
          /\ ok_steps' = [ok_steps EXCEPT ![r] = IF ok THEN @ \cup {"update_team_elo"} ELSE @]
          /\ failed_at' = [failed_at EXCEPT ![r] = IF ok THEN "none" ELSE "update_team_elo"]
          /\ r_result' = [r_result EXCEPT ![r] = IF ok THEN "none" ELSE "DatabaseError"]
    /\ UNCHANGED <<round, games_per_round, comp_round, ncompiled, mstate, games, match_dirs>>
    /\ UNCHANGED <<pairVars, qualVars, matchVars, parseVars, compileVars>>

\* cleanup_matches(): read_dir may fail, and then nothing is removed and Ok
\* is returned; a remove_dir_all that fails returns IOError with the
\* directories not yet removed left in place.
\* kill_java_player_processes follows; its result is only printed.
RCleanup(r) ==
    /\ rpc[r] = "cleanup"
    /\ \E listed \in BOOLEAN, kept \in SUBSET match_dirs :
          /\ ~listed => kept = match_dirs
          /\ rpc' = [rpc EXCEPT ![r] = IF listed /\ kept # {} THEN "done" ELSE "set_round"]
          /\ failed_at' = [failed_at EXCEPT ![r] =
                              IF listed /\ kept # {} THEN "remove_dir_all" ELSE "none"]
          /\ r_result' = [r_result EXCEPT ![r] =
                              IF listed /\ kept # {} THEN "IOError" ELSE "none"]
          /\ ok_steps' = [ok_steps EXCEPT ![r] =
                              IF listed /\ kept # {} THEN @ ELSE @ \cup {"cleanup_matches"}]
          /\ match_dirs' = kept
    /\ UNCHANGED <<round, games_per_round, comp_round, ncompiled, mstate, games>>
    /\ UNCHANGED <<pairVars, qualVars, matchVars, parseVars, compileVars>>

\* set_competition_round(competition.id, competition.round + 1)
RSetRound(r) ==
    /\ rpc[r] = "set_round"
    /\ \E ok \in BOOLEAN :
          /\ round' = after_set_round(ok, round, comp_round[r] + 1)
          /\ failed_at' = [failed_at EXCEPT ![r] = IF ok THEN "none" ELSE "set_competition_round"]
          /\ r_result' = [r_result EXCEPT ![r] = IF ok THEN "Ok" ELSE "DatabaseError"]
          /\ ok_steps' = [ok_steps EXCEPT ![r] =
                              IF ok THEN @ \cup {"set_competition_round"} ELSE @]
    /\ rpc' = [rpc EXCEPT ![r] = "done"]
    /\ UNCHANGED <<games_per_round, comp_round, ncompiled, mstate, games, match_dirs>>
    /\ UNCHANGED <<pairVars, qualVars, matchVars, parseVars, compileVars>>

\* run_2v2_round is called again; the directories the ended execution left
\* behind stay.
RCallAgain(r) ==
    /\ rpc[r] = "done"
    /\ rpc' = [rpc EXCEPT ![r] = "idle"]
    /\ comp_round' = [comp_round EXCEPT ![r] = 0]
    /\ ncompiled' = [ncompiled EXCEPT ![r] = 0]
    /\ mstate' = [mstate EXCEPT ![r] = <<>>]
    /\ games' = [games EXCEPT ![r] = <<>>]
    /\ ok_steps' = [ok_steps EXCEPT ![r] = {}]
    /\ failed_at' = [failed_at EXCEPT ![r] = "none"]
    /\ r_result' = [r_result EXCEPT ![r] = "none"]
    /\ match_dirs' = IF \E d \in match_dirs : d[1] = r
                     THEN { d \in match_dirs : d[1] # r } \cup {<<0, 0>>}
                     ELSE match_dirs
    /\ UNCHANGED <<round, games_per_round>>
    /\ UNCHANGED <<pairVars, qualVars, matchVars, parseVars, compileVars>>

RoundNext ==
    \E r \in Runs :
        \/ RLoadCompetition(r)
        \/ RPrepare(r)
        \/ \E i \in 1..Len(mstate[r]) : RMatchStage(r, i)
        \/ \E i \in 1..Len(mstate[r]) : RMatchReturn(r, i)
        \/ \E i \in 1..Len(mstate[r]) : RPush(r, i)
        \/ RBarrier(r)
        \/ RElo(r)
        \/ RCleanup(r)
        \/ RSetRound(r)
        \/ RCallAgain(r)

(***************************************************************************)
(* Specifications                                                          *)
(***************************************************************************)
Init == PairsRest /\ QualRest /\ MatchRest /\ RoundInit /\ ParseRest /\ CompileRest
Next == RoundNext
Spec == Init /\ [][Next]_vars

InitPairs == PairsInit /\ QualRest /\ MatchRest /\ RoundRest /\ ParseRest /\ CompileRest
SpecPairs == InitPairs /\ [][PairsNext]_vars

InitQualify == PairsRest /\ QualInit /\ MatchRest /\ RoundRest /\ ParseRest /\ CompileRest
SpecQualify == InitQualify /\ [][QualNext]_vars

InitMatch == PairsRest /\ QualRest /\ MatchInit /\ RoundRest /\ ParseRest /\ CompileRest
SpecMatch == InitMatch /\ [][MatchNext]_vars

InitParse == PairsRest /\ QualRest /\ MatchRest /\ RoundRest /\ ParseInit /\ CompileRest
SpecParse == InitParse /\ [][ParseNext]_vars

InitReparse == PairsRest /\ QualRest /\ MatchRest /\ RoundRest /\ ReparseInit /\ CompileRest
SpecReparse == InitReparse /\ [][ReparseNext]_vars

InitCompile == PairsRest /\ QualRest /\ MatchRest /\ RoundRest /\ ParseRest /\ CompileInit
SpecCompile == InitCompile /\ [][CompileNext]_vars

\* run_match's own thread is scheduled, so its next step up to the joins is
\* taken once it can be; nothing makes a process the evaluator started come
\* to an end.
MatchThread == MStage \/ MSpawn \/ MWait \/ MJoin
FairSpecMatch == InitMatch /\ [][MatchNext]_vars /\ WF_vars(MatchThread)

(***************************************************************************)
(* Properties of create_match_pairs (SpecPairs)                            *)
(***************************************************************************)

\* The number of positions of the returned pairs that hold team t.
occurrences(t) ==
    Cardinality({ ip \in (1..Len(pairs)) \X {1, 2} : pairs[ip[1]][ip[2]] = t })

RECURSIVE total_occurrences(_)
total_occurrences(n) == IF n = 0 THEN 0 ELSE occurrences(n) + total_occurrences(n - 1)

C8_OccurrencesBounded ==
    /\ \A t \in 1..nteams : occurrences(t) <= match_num
    /\ total_occurrences(nteams) = 2 * Len(pairs)

C8_Witness ==
    /\ ppc = "done"
    /\ nteams >= 2
    /\ \E i \in 1..Len(pairs) : pairs[i][1] = pairs[i][2]
    /\ \E t \in 1..nteams : occurrences(t) = match_num /\ match_num >= 2

(***************************************************************************)
(* Properties of compile_team_bots (SpecQualify)                           *)
(***************************************************************************)

all_teams_processed == \A t \in QTeams : tpc[t] = "done"

\* C5: compile_team_bots returns a team if and only if both of its bot ids
\* are non-empty, both bots were fetched without error and compile_bot
\* succeeded for both; no other team is returned and none such is left out.
C5_ReturnedIffQualified ==
    /\ \A t \in results :
          /\ qteams[t].bot1 # "" /\ qteams[t].bot2 # ""
          /\ fetched[t] = <<"Ok", "Ok">>
          /\ compiled[t] = <<"Ok", "Ok">>
    /\ all_teams_processed =>
          \A t \in QTeams :
              ( /\ qteams[t].bot1 # "" /\ qteams[t].bot2 # ""
                /\ fetched[t] = <<"Ok", "Ok">>
                /\ compiled[t] = <<"Ok", "Ok">> ) => t \in results

C5_Witness ==
    /\ all_teams_processed
    /\ \E t \in results, u \in QTeams \ results : compiled[u] = <<"Ok", "Err">>

\* C6 as stated: a bot's error is written only for a bot whose compilation
\* was attempted and failed in this round, and no bot of a team returned as
\* qualified has its error written in this round, teams that share a bot id
\* included.
C6_NoErrorOnQualifiedBots ==
    /\ \A b \in error_written :
          \E t \in QTeams :
              \/ qteams[t].bot1 = b /\ compiled[t][1] = "Err"
              \/ qteams[t].bot2 = b /\ compiled[t][2] = "Err"
    /\ \A t \in results :
          qteams[t].bot1 \notin error_written /\ qteams[t].bot2 \notin error_written

(***************************************************************************)
(* Properties of run_match (SpecMatch)                                     *)
(***************************************************************************)

\* The game run_match hands to parse_game.
game_before_parse ==
    [NewGame2v2_new(0, m_team1, m_team2) EXCEPT !.log_file_path = "zip"]

silent_timeout_stored ==
    timed_out /\ output = <<>> /\ errors = <<>> /\ stored_game # <<>>

game_parsed == p_pc = "parsed" /\ p_outcome = "game"

\* Bugged mode wrote the game's additional_data.
bugged_mode_ran == game_parsed /\ p_parsed.additional_data.kind = "GameError"

\* The bot ids of the parsed game, in slot order, and its survival flags.
slot_ids ==
    << p_game.team1bot1_id, p_game.team1bot2_id, p_game.team2bot1_id, p_game.team2bot2_id >>
slot_survived ==
    << p_parsed.team1bot1_survived, p_parsed.team1bot2_survived,
       p_parsed.team2bot1_survived, p_parsed.team2bot2_survived >>

\* The stderr lines that contain one of the four bot ids.
rows_with_bot == { r \in 1..Len(p_errs) : \E k \in 1..4 : str_contains(p_errs[r], slot_ids[k]) }

\* C14: in bugged mode entered on more than one stderr line, when some
\* stderr line contains a bot id, the blamed bot is the one matched in the
\* earliest such line.
C14_EarliestLineBlamed ==
    (bugged_mode_ran /\ Len(p_errs) > 1 /\ rows_with_bot # {}) =>
        LET earliest == CHOOSE r \in rows_with_bot : \A q \in rows_with_bot : r <= q
        IN  str_contains(p_errs[earliest], p_parsed.additional_data.blame_id)

\* Bugged mode ran and blamed a bot.
bot_blamed == bugged_mode_ran /\ p_parsed.additional_data.blame_id # "Unknown"

\* C15 as stated: in bugged mode with a blamed bot, exactly one slot, one
\* that holds the blamed bot, has survival false, the other three have
\* survival true, and the winner is the team opposing that slot's team.
C15_OnlyBlamedSlotFalse ==
    bot_blamed =>
        \E k \in 1..4 :
            /\ slot_ids[k] = p_parsed.additional_data.blame_id
            /\ \A j \in 1..4 : slot_survived[j] <=> j # k
            /\ p_parsed.winner_id = IF k <= 2 THEN p_game.team2_id ELSE p_game.team1_id

\* C15 amended: in bugged mode with a blamed bot, every slot that holds the
\* blamed bot's id has survival false and every other slot has survival
\* true (one slot when the four ids differ, two when a team plays itself),
\* and the winner is the team opposing the last such slot in the order
\* team1bot1, team1bot2, team2bot1, team2bot2.
C15_BlamedSlotsFalse ==
    bot_blamed =>
        /\ \A j \in 1..4 :
              slot_survived[j] <=> slot_ids[j] # p_parsed.additional_data.blame_id
        /\ p_parsed.winner_id =
              IF \E k \in 3..4 : slot_ids[k] = p_parsed.additional_data.blame_id
              THEN p_game.team1_id ELSE p_game.team2_id

C15_Witness ==
    /\ bot_blamed /\ Len(p_errs) > 1
    /\ p_game.team1bot1_id = p_game.team2bot1_id
    /\ slot_survived = <<FALSE, TRUE, FALSE, TRUE>>
    /\ p_parsed.winner_id = p_game.team1_id

\* C16: whenever bugged mode runs and finds no bot id in the stderr it is
\* given (the stderr lines, or the last 'L ' line when healthy mode hands
\* over), the game has all four survival flags true and an empty winner.
C16_NoBlameNoWinner ==
    (bugged_mode_ran /\ p_parsed.additional_data.blame_id = "Unknown") =>
        /\ slot_survived = <<TRUE, TRUE, TRUE, TRUE>>
        /\ p_parsed.winner_id = ""

\* The same, for bugged mode entered on more than one stderr line only.
no_blame_direct_entry ==
    (bugged_mode_ran /\ Len(p_errs) > 1 /\ p_parsed.additional_data.blame_id = "Unknown") =>
        /\ slot_survived = <<TRUE, TRUE, TRUE, TRUE>>
        /\ p_parsed.winner_id = ""

\* C17: the parsed game's winner is team1's id, team2's id or empty; it is
\* empty only when bugged mode ran and blamed no bot; a parse that went
\* through healthy mode (at most one stderr line) never leaves it empty.
C17_WinnerWellFormed ==
    game_parsed =>
        /\ p_parsed.winner_id \in {p_game.team1_id, p_game.team2_id, ""}
        /\ p_parsed.winner_id = "" =>
              bugged_mode_ran /\ p_parsed.additional_data.blame_id = "Unknown"
        /\ Len(p_errs) <= 1 => p_parsed.winner_id # ""

C17_Witness ==
    /\ game_parsed /\ p_parsed.winner_id = ""
    /\ Len(p_errs) > 1 /\ p_game.team1_id # p_game.team2_id

\* Healthy mode wrote the game's additional_data: no hand-over to bugged mode.
healthy_mode_ran == game_parsed /\ p_parsed.additional_data.kind = "stats"

\* a + b as a number, in two limbs so that no limb leaves 32 bits.
wide_sum(a, b) ==
    LET low == (a % 65536) + (b % 65536)
    IN  << (a \div 65536) + (b \div 65536) + (low \div 65536), low % 65536 >>
wide_greater(x, y) == x[1] > y[1] \/ (x[1] = y[1] /\ x[2] > y[2])

\* The colour scores at the end of the scan of the parsed stdout.
final_scores == scan_lines(healthy_start, p_lines)

\* The winner C18 states, from the survival flags and the colour scores.
stated_winner ==
    IF (slot_survived[1] \/ slot_survived[2]) /\ ~slot_survived[3] /\ ~slot_survived[4]
    THEN p_game.team1_id
    ELSE IF (slot_survived[3] \/ slot_survived[4]) /\ ~slot_survived[1] /\ ~slot_survived[2]
    THEN p_game.team2_id
    ELSE IF wide_greater(wide_sum(final_scores.r_yellow, final_scores.r_green),
                         wide_sum(final_scores.r_blue, final_scores.r_cyan))
    THEN p_game.team1_id
    ELSE p_game.team2_id

\* C18: in healthy mode without hand-over to bugged mode the winner is
\* team1 when only team1 bots survived, team2 when only team2 bots survived,
\* and otherwise team1 if yellow + green > blue + cyan and team2 if not.
C18_HealthyWinner == healthy_mode_ran => p_parsed.winner_id = stated_winner

\* The same, for scores the sums of which stay within i32.
healthy_winner_within_i32 ==
    (healthy_mode_ran /\ ~score_overflows(final_scores)) => p_parsed.winner_id = stated_winner

\* Both parses of the same input have left a game.
parsed_twice == p_pc = "reparsed" /\ p_outcome = "game" /\ p_again_outcome = "game"

\* C19: two parses of the same (stdout, stderr) and the same initial game
\* leave equal games, field by field, the serialized additional_data
\* included.
C19_ReparseEqual == parsed_twice => p_again = p_parsed

\* The entries of a serialized additional_data, their order put aside.
unordered(data) ==
    IF data.kind = "stats"
    THEN [kind |-> "stats", entries |-> { data.entries[i] : i \in 1..Len(data.entries) }]
    ELSE data

\* The same, with additional_data compared as a JSON object.
reparse_equal_up_to_key_order ==
    parsed_twice =>
        /\ [p_again EXCEPT !.additional_data = ""] = [p_parsed EXCEPT !.additional_data = ""]
        /\ unordered(p_again.additional_data) = unordered(p_parsed.additional_data)

\* C20: the parse yields a game, for every stdout and stderr.
C20_ParserYieldsGame == p_pc = "parsed" => p_outcome = "game"

\* The positions of the stdout lines that contain "STAT: ", and the k-th.
stat_positions == { i \in 1..Len(p_lines) : str_contains(p_lines[i], "STAT: ") }
kth_stat(k) ==
    CHOOSE i \in stat_positions : Cardinality({ j \in stat_positions : j < i }) = k - 1

\* The order in which the STAT lines name the slots.
SlotOrder == << "team1bot1", "team2bot1", "team1bot2", "team2bot2" >>
slots_made_current ==
    IF Cardinality(stat_positions) < 4 THEN Cardinality(stat_positions) ELSE 4

\* The last line that updates the record of the k-th slot: the line before
\* the next STAT line that names a slot, the last line when there is none.
last_line_of_slot(k) ==
    IF k < slots_made_current THEN kth_stat(k + 1) - 1 ELSE Len(p_lines)

\* A default record after the two-token lines from..to, in order.
RECURSIVE after_key_values(_, _, _)
after_key_values(rec, from, to) ==
    IF from > to THEN rec
    ELSE LET parts == str_split(p_lines[from])
         IN  after_key_values(IF Len(parts) = 2 THEN update_stat(rec, parts[1], parts[2])
                                               ELSE rec,
                              from + 1, to)

\* The stats records healthy mode serialized, as a set of <<key, record>>.
serialized_stats ==
    { p_parsed.additional_data.entries[i] : i \in 1..Len(p_parsed.additional_data.entries) }

\* C23: in healthy mode the k-th STAT line (k = 1..4) makes the slot at
\* position k of team1bot1, team2bot1, team1bot2, team2bot2 current with a
\* fresh default record, and the two-token lines that follow it, up to the
\* next STAT line, update that slot's record and no other.
C23_StatLinesFillSlots ==
    healthy_mode_ran =>
        /\ Cardinality(serialized_stats) = slots_made_current
        /\ \A k \in 1..slots_made_current :
              << SlotOrder[k],
                 after_key_values(GamePlayerStats_default, kth_stat(k) + 1,
                                  last_line_of_slot(k)) >> \in serialized_stats

C23_Witness ==
    /\ healthy_mode_ran
    /\ p_lines = <<"survive: true", "STAT: p", "turnsPlayed: 7", "STAT: p">>
    /\ \E e \in serialized_stats :
          e[1] = "team1bot1" /\ e[2].turns_played = 7 /\ ~e[2].survived
    /\ \E e \in serialized_stats : e[1] = "team2bot1" /\ e[2] = GamePlayerStats_default

SlotKeys == {"team1bot1", "team1bot2", "team2bot1", "team2bot2"}

\* C29: the healthy-mode stats hold at most four records, one per key and
\* only under team1bot1, team1bot2, team2bot1, team2bot2; with five or more
\* STAT lines there are exactly four, every record is the default one updated
\* by the two-token lines after its own STAT line, and the record of the
\* fourth slot is neither reset by a later STAT line nor left alone by the
\* two-token lines after it, which update it to the end of the output.
C29_FourRecordsAtMost ==
    healthy_mode_ran =>
        LET entries == p_parsed.additional_data.entries IN
        /\ Len(entries) <= 4
        /\ \A i \in 1..Len(entries) : entries[i][1] \in SlotKeys
        /\ \A i, j \in 1..Len(entries) : entries[i][1] = entries[j][1] => i = j
        /\ Cardinality(stat_positions) > 4 =>
              /\ { entries[i][1] : i \in 1..Len(entries) } = SlotKeys
              /\ \A i \in 1..Len(entries) :
                    /\ entries[i][1] = "team2bot2" =>
                          entries[i][2] = after_key_values(GamePlayerStats_default,
                                                           kth_stat(4) + 1, Len(p_lines))
                    /\ \A k \in 1..3 : entries[i][1] = SlotOrder[k] =>
                          entries[i][2] = after_key_values(GamePlayerStats_default,
                                                           kth_stat(k) + 1, kth_stat(k + 1) - 1)

\* A fifth STAT line after the fourth bot survived, then a line that sets
\* the turns: the fourth record keeps survived and takes the turns.
C29_Witness ==
    /\ healthy_mode_ran
    /\ Cardinality(stat_positions) = 5
    /\ p_lines[Len(p_lines) - 1] = "STAT: q"
    /\ p_lines[Len(p_lines)] = "turnsPlayed: 7"
    /\ \E e \in serialized_stats :
          e[1] = "team2bot2" /\ e[2].survived /\ e[2].turns_played = 7
    /\ Cardinality(serialized_stats) = 4

\* The parse went through the healthy-mode scan.
healthy_scan_ran == game_parsed /\ Len(p_errs) <= 1

\* The positions of the three-token lines 'R <int> <colour>' of a colour.
score_lines_of(colour) ==
    { i \in 1..Len(p_lines) :
        LET parts == str_split(p_lines[i])
        IN  Len(parts) = 3 /\ parts[1] = "R" /\ parts[3] = colour }

\* The score C24 states for a colour: the integer of its last line, 0 when
\* that is no i32 number, 0 without a line.
stated_score(colour) ==
    LET of_colour == score_lines_of(colour) IN
    IF of_colour = {} THEN 0
    ELSE LET last == CHOOSE i \in of_colour : \A j \in of_colour : j <= i
             number == parse_i32(str_split(p_lines[last])[2])
         IN  IF number.ok THEN number.val ELSE 0

last_line_positions == { i \in 1..Len(p_lines) : str_contains(p_lines[i], "L ") }

\* C25: healthy mode hands over to bugged mode, with the last line that
\* contains "L " as the only stderr line, exactly when no stats record was
\* made (no STAT line) and some line contained "L "; in every other case
\* additional_data is the serialized stats map and bugged mode is not
\* entered.
C25_HandOverIffNoStatsAndL ==
    healthy_scan_ran =>
        IF stat_positions = {} /\ last_line_positions # {}
        THEN LET last_L == p_lines[CHOOSE i \in last_line_positions :
                                      \A j \in last_line_positions : j <= i]
                 named == { k \in 1..4 : str_contains(last_L, slot_ids[k]) }
             IN  /\ p_parsed.additional_data.kind = "GameError"
                 /\ p_parsed.additional_data.error = double_backslashes(last_L)
                 /\ p_parsed.additional_data.blame_id =
                       IF named = {} THEN "Unknown"
                       ELSE slot_ids[CHOOSE k \in named : \A j \in named : k <= j]
                 /\ slot_survived =
                       [k \in 1..4 |-> slot_ids[k] # p_parsed.additional_data.blame_id]
        ELSE /\ p_parsed.additional_data.kind = "stats"
             /\ Cardinality(serialized_stats) = slots_made_current

C25_Witness ==
    /\ healthy_scan_ran
    /\ p_lines = <<"L a1 crashed", "L b2 out", "L none">>
    /\ p_parsed.additional_data.kind = "GameError"
    /\ p_parsed.additional_data.blame_id = "Unknown"

C25_WitnessStats ==
    /\ healthy_scan_ran
    /\ p_lines = <<"L a1 crashed", "STAT: p">>
    /\ p_parsed.additional_data.kind = "stats"

(***************************************************************************)
(* Properties of compile_bot (SpecCompile)                                  *)
(***************************************************************************)

\* compile_bot has returned after it listed the workdir.
listed_and_returned == c_pc = "returned" /\ c_failed_step = "none"

\* The listed .java paths, those that end in Player.java, and the positions
\* of those that contain Player.java.
listed_java == SelectSeq(c_entries, has_java_extension)
ending_in_player == { i \in 1..Len(listed_java) : str_ends_with(listed_java[i], "Player.java") }
containing_player == { i \in 1..Len(listed_java) : str_contains(listed_java[i], "Player.java") }

OrchestrationSteps ==
    {"load_competition", "load_teams", "update_team_elo", "remove_dir_all",
     "set_competition_round"}

\* C1 as stated: whenever run_2v2_round returns Ok for a competition whose
\* round was r when it was loaded, the stored round is r + 1 and
\* ./resources/matches has no subdirectory.
C1_OkMeansBumpedAndClean ==
    [][ \A r \in Runs :
          (r_result[r] # "Ok" /\ r_result'[r] = "Ok") =>
              (round' = comp_round[r] + 1 /\ match_dirs' = {}) ]_vars

C3_PhasesOrdered ==
    \A r \in Runs :
        /\ rpc[r] = "elo" =>
              \A i \in 1..Len(mstate[r]) :
                  /\ mstate[r][i] \in {"Ok", "Err"}
                  /\ mstate[r][i] = "Ok" <=> (\E g \in 1..Len(games[r]) : games[r][g] = i)
        /\ rpc[r] = "cleanup" => "update_team_elo" \in ok_steps[r]
        /\ rpc[r] = "set_round" => {"update_team_elo", "cleanup_matches"} \subseteq ok_steps[r]
        /\ "set_competition_round" \in ok_steps[r] =>
              {"update_team_elo", "cleanup_matches"} \subseteq ok_steps[r]

C3_Witness ==
    \E r \in Runs :
        /\ r_result[r] = "Ok"
        /\ Len(mstate[r]) = 2
        /\ ok_steps[r] = {"update_team_elo", "cleanup_matches", "set_competition_round"}

C22_LoadFailureStopsRound ==
    \A r \in Runs :
        failed_at[r] \in {"load_competition", "load_teams"} =>
            /\ rpc[r] = "done" /\ r_result[r] = "DatabaseError"
            /\ ncompiled[r] = 0 /\ mstate[r] = <<>> /\ games[r] = <<>>
            /\ ok_steps[r] = {}
            /\ \A d \in match_dirs : d[1] # r

C22_Witness ==
    \E r, q \in Runs :
        /\ failed_at[r] = "load_teams" /\ rpc[r] = "done"
        /\ failed_at[q] = "load_competition" /\ rpc[q] = "done"

\* The games vector of execution r was handed to update_team_elo.
batch_handed(r) ==
    \/ rpc[r] \in {"elo", "cleanup", "set_round"}
    \/ rpc[r] = "done" /\ failed_at[r] \in {"update_team_elo", "remove_dir_all",
                                             "set_competition_round"}
    \/ r_result[r] = "Ok"

\* C26: under every interleaving of the matches, the batch handed to the
\* Elo update holds exactly one entry for each match whose run_match
\* returned Ok and none for a match that returned an error; and at no time
\* does the vector hold a match twice or a match that did not return Ok.
C26_BatchIsTheOkMatches ==
    \A r \in Runs :
        /\ \A i \in 1..Len(mstate[r]) :
              /\ Cardinality({ g \in 1..Len(games[r]) : games[r][g] = i }) <= 1
              /\ (\E g \in 1..Len(games[r]) : games[r][g] = i) => mstate[r][i] = "Ok"
        /\ \A g \in 1..Len(games[r]) : games[r][g] \in 1..Len(mstate[r])
        /\ batch_handed(r) =>
              /\ \A i \in 1..Len(mstate[r]) :
                    /\ mstate[r][i] \in {"Ok", "Err"}
                    /\ Cardinality({ g \in 1..Len(games[r]) : games[r][g] = i })
                          = IF mstate[r][i] = "Ok" THEN 1 ELSE 0
              /\ Len(games[r]) = Cardinality({ i \in 1..Len(mstate[r]) : mstate[r][i] = "Ok" })

C26_Witness ==
    \E r \in Runs :
        /\ rpc[r] = "elo"
        /\ mstate[r] = <<"Ok", "Ok">>
        /\ games[r] = <<2, 1>>
        /\ \E q \in Runs : rpc[q] = "elo" /\ mstate[q] = <<"Err", "Ok">> /\ games[q] = <<2>>

\* Match i of execution r has created its staging directory and its
\* run_match has not returned.
match_in_flight(r, i) == i \in 1..Len(mstate[r]) /\ mstate[r][i] = "staged"

\* C27 as stated: from the creation of a match's staging directory until
\* that match's run_match returns, no step removes the directory, whatever
\* the interleaving of the matches and of overlapping executions of the round.
C27_StagingDirKeptInFlight ==
    [][\A r \in Runs : \A i \in 1..Len(mstate[r]) :
          (match_in_flight(r, i) /\ <<r, i>> \in match_dirs
               /\ i \in 1..Len(mstate'[r]) /\ mstate'[r][i] = "staged")
             => <<r, i>> \in match_dirs']_vars

RoundErrors == {"DatabaseError", "IOError"}

pairs_variant == 2 * Len(players) + (IF ppc = "loop" THEN 1 ELSE 0)

C11_ReadersJoined ==
    (child \in {"exited", "killed"}) ~> (readers = "joined")

\* C12 as stated: the stdout archive exists after run_match returns if and
\* only if run_match returned Ok.
C12_ArchiveIffOk ==
    mpc = "done" => (archive # <<>> <=> m_result = "Ok")

====
